---------------------------- MODULE Spec2Model ----------------------------
(***************************************************************************)
(* hebrides: target/doc/search-index.js                                    *)
(*                                                                         *)
(* The file is a script of three statements:                               *)
(*   line 1-3  var searchIndex = JSON.parse('{ "hebrides": {...} }');      *)
(*   line 4    if (typeof window !== 'undefined' && window.initSearch)     *)
(*                 {window.initSearch(searchIndex)};                       *)
(*   line 5    if (typeof exports !== 'undefined')                         *)
(*                 {exports.searchIndex = searchIndex};                    *)
(*                                                                         *)
(* The first part of the module is the JSON literal of line 2, array by    *)
(* array and in the order of the file.  The second part is the script as   *)
(* a state machine whose program counter walks the three statements in     *)
(* every host environment (window / window.initSearch / exports).          *)
(***************************************************************************)
EXTENDS Naturals, Sequences, FiniteSets

(***************************************************************************)
(* Encoding of the signature table "f".                                    *)
(*                                                                         *)
(* An element of "f" is either 0 (the item has no signature) or an array   *)
(* [inputs] or [inputs, output].  inputs and output are each either one    *)
(* type or an array of types; a type is a number n (a 1-based position in  *)
(* "p") or a pair [n, generics] with generics an array of types.           *)
(*   0                      NoSig                                          *)
(*   [[]]                   Fn(<<>>, <<>>)                                 *)
(*   [1,1]                  Fn(<<Ty(1)>>, <<Ty(1)>>)                       *)
(*   [[1,1],1]              Fn(<<Ty(1), Ty(1)>>, <<Ty(1)>>)                *)
(*   [1,[[5,[3,4]]]]        Fn(<<Ty(1)>>, <<Gen(5, <<Ty(3), Ty(4)>>)>>)    *)
(* Characters outside ASCII in "d" are written as JSON \uXXXX escapes.     *)
(***************************************************************************)
Ty(n) == [id |-> n, generics |-> <<>>]

Gen(n, gs) == [id |-> n, generics |-> gs]

NoSig == [present |-> FALSE, inputs |-> <<>>, output |-> <<>>]

Fn(ins, outs) == [present |-> TRUE, inputs |-> ins, output |-> outs]

hebrides_doc == "Implementations for real and complex numbers."

hebrides_t ==
  <<
    3, 3, 3, 3, 18, 18, 18, 3, 18, 18, 11, 11, 11, 11, 11, 11, 11, 11, 11, 11, 11, 11, 11, 11,
    11, 11, 11, 11, 11, 11, 11, 11, 11, 11, 11, 11, 11, 11, 11, 11, 11, 11, 11, 11, 11, 11, 11,
    11, 11, 11, 11, 11, 11, 11, 11, 11, 11, 11, 11, 11, 11, 11, 11, 11, 11, 11, 11, 11, 11, 11,
    11, 11, 11, 11, 11, 11, 11, 11, 11, 11, 11, 11, 11, 11, 11, 11, 11, 11, 11, 11, 11, 11, 11,
    11, 11, 11, 11, 11, 11, 11, 11, 11, 11, 11, 11, 11, 11, 11, 11, 11, 11, 11, 11, 11, 11, 11,
    11, 11, 11, 11, 11, 11, 11, 11, 11, 11, 11, 11, 11, 11, 11, 11, 11, 11, 11, 11, 11, 11, 11,
    11, 11, 11, 11, 11, 11, 11, 11, 11, 11, 11, 11, 11
  >>

hebrides_n ==
  <<
    "Angle", "Complex", "ConversionError", "DomainError", "I", "ONE", "ONE", "Real", "ZERO",
    "ZERO", "abs", "abs", "add", "add", "arccos", "arccos", "arccosh", "arccosh", "arcsin",
    "arcsin", "arcsinh", "arcsinh", "arctan", "arctan", "arctanh", "arctanh", "azimuthal",
    "borrow", "borrow", "borrow", "borrow", "borrow", "borrow_mut", "borrow_mut", "borrow_mut",
    "borrow_mut", "borrow_mut", "ceil", "clone", "clone", "clone", "clone", "clone_into",
    "clone_into", "clone_into", "clone_into", "cmp", "cos", "cos", "cosh", "cosh", "div",
    "div", "eq", "eq", "exp", "exp", "floor", "fmt", "fmt", "fmt", "fmt", "fmt", "fmt", "fmt",
    "fmt", "from", "from", "from", "from", "from", "from", "from", "from", "from", "from",
    "from", "from", "from", "from", "from", "from_degrees", "from_radians", "into", "into",
    "into", "into", "into", "into_degrees", "into_radians", "is_imaginary", "is_real", "ln",
    "ln", "log", "logf", "logi", "mul", "mul", "neg", "neg", "negative", "new", "new", "norm",
    "partial_cmp", "positive", "pow", "powf", "powi", "sin", "sin", "sinh", "sinh", "sqrt",
    "sqrt", "squared", "squared", "sub", "sub", "tan", "tan", "tanh", "tanh", "to_complex",
    "to_degrees", "to_owned", "to_owned", "to_owned", "to_owned", "to_radians", "to_string",
    "to_string", "to_string", "to_string", "try_from", "try_from", "try_from", "try_from",
    "try_from", "try_from", "try_into", "try_into", "try_into", "try_into", "try_into",
    "type_id", "type_id", "type_id", "type_id", "type_id", "value"
  >>

hebrides_q ==
  <<
    "hebrides", "", "", "", "", "", "", "", "", "", "", "", "", "", "", "", "", "", "", "", "",
    "", "", "", "", "", "", "", "", "", "", "", "", "", "", "", "", "", "", "", "", "", "", "",
    "", "", "", "", "", "", "", "", "", "", "", "", "", "", "", "", "", "", "", "", "", "", "",
    "", "", "", "", "", "", "", "", "", "", "", "", "", "", "", "", "", "", "", "", "", "", "",
    "", "", "", "", "", "", "", "", "", "", "", "", "", "", "", "", "", "", "", "", "", "", "",
    "", "", "", "", "", "", "", "", "", "", "", "", "", "", "", "", "", "", "", "", "", "", "",
    "", "", "", "", "", "", "", "", "", "", "", "", "", "", "", ""
  >>

hebrides_d ==
  <<
    "Representation of angular values.",
    "Representation of complex numbers",
    "Error type for errors involving conversion between values.",
    "Error type for errors involving domain restrictions.",
    "shortcut for encoding the imaginary unit as \\u2026",
    "shortcut for describing Real::new(0.0)",
    "shortcut for encoding 1.0 as Complex::new(Real::ONE, \\u2026",
    "Representation of real numbers.",
    "shortcut for describing Real::new(1.0)",
    "shortcut for encoding 0.0 as Complex::new(Real::ZERO, \\u2026",
    "Absolute value of <code>self</code>.",
    "Absolute value (aka. complex norm).",
    "",
    "",
    "Arccosine.",
    "Complex arccos.",
    "Hyperbolic arccosine.",
    "Complex inverse hyperbolic cosine.",
    "Arcsine.",
    "Complex arcsin.",
    "Hyperbolic arcsine.",
    "Complex inverse hyperbolic sine.",
    "Arctangent.",
    "Complex arctan.",
    "Hyperbolic arctangent.",
    "Complex inverse hyperbolic tangent.",
    "Azimuthal angle.",
    "",
    "",
    "",
    "",
    "",
    "",
    "",
    "",
    "",
    "",
    "Returns the ceiling of <code>self</code>.",
    "",
    "",
    "",
    "",
    "",
    "",
    "",
    "",
    "",
    "Cosine.",
    "Complex cosine.",
    "Hyperbolic cosine.",
    "Complex hyperbolic cosine.",
    "",
    "",
    "",
    "",
    "e to the power of <code>self</code>.",
    "Complex exponentiation.",
    "Returns the floor of <code>self</code>.",
    "",
    "",
    "",
    "",
    "",
    "",
    "",
    "",
    "Returns the argument unchanged.",
    "Returns the argument unchanged.",
    "Returns the argument unchanged.",
    "",
    "",
    "",
    "",
    "",
    "",
    "",
    "",
    "",
    "",
    "Returns the argument unchanged.",
    "Returns the argument unchanged.",
    "Constructs an Angle from a given value in degrees",
    "Constructs an Angle from a given value in radians",
    "Calls <code>U::from(self)</code>.",
    "Calls <code>U::from(self)</code>.",
    "Calls <code>U::from(self)</code>.",
    "Calls <code>U::from(self)</code>.",
    "Calls <code>U::from(self)</code>.",
    "Converts a <code>value</code> in radians into a value in degrees",
    "Converts a <code>value</code> in degrees into a value in radians",
    "Returns whether or not <code>self</code> is imaginary.",
    "Returns whether or not <code>self</code> is real.",
    "Natural logarithm.",
    "Complex natural logarithm.",
    "Logarithm with base \\u2018base\\u2019.",
    "Logarithm with base \\u2018base\\u2019.",
    "Logarithm with base \\u2018base\\u2019.",
    "",
    "",
    "",
    "",
    "Whether or not <code>self</code> is negative.",
    "Constructs a Real from an f64.",
    "Constructs a Complex from two f64 values",
    "Complex norm.",
    "",
    "Whether or not <code>self</code> is positive.",
    "<code>self</code> to the power of <code>power</code>.",
    "<code>self</code> to the power of <code>power</code>.",
    "<code>self</code> to the power of <code>power</code>.",
    "Sine.",
    "Complex sine.",
    "Hyperbolic sine.",
    "Complex hyperbolic sine.",
    "Returns the square root of <code>self</code>.",
    "Returns the square root of <code>self</code>.",
    "Returns the square of <code>self</code>.",
    "Returns <code>self</code> squared.",
    "",
    "",
    "Tangent.",
    "Complex tangent.",
    "Hyperbolic tangent.",
    "Complex hyperbolic tangent.",
    "Constructs a <code>Complex</code> from <code>self</code>.",
    "Consumes <code>self</code>, returning a value in degrees.",
    "",
    "",
    "",
    "",
    "Consumes <code>self</code>, returning a value in radians.",
    "",
    "",
    "",
    "",
    "",
    "",
    "",
    "",
    "",
    "",
    "",
    "",
    "",
    "",
    "",
    "",
    "",
    "",
    "",
    "",
    "Returns a copy of <code>self</code> as an f64."
  >>

hebrides_i ==
  <<
    0, 0, 0, 0, 2, 1, 2, 0, 1, 2, 1, 2, 1, 2, 1, 2, 1, 2, 1, 2, 1, 2, 1, 2, 1, 2, 2, 3, 4, 6,
    1, 2, 3, 4, 6, 1, 2, 1, 4, 6, 1, 2, 4, 6, 1, 2, 1, 1, 2, 1, 2, 1, 2, 1, 2, 1, 2, 1, 4, 4,
    6, 6, 1, 1, 2, 2, 3, 4, 6, 1, 1, 1, 1, 1, 1, 1, 1, 1, 1, 1, 2, 3, 3, 3, 4, 6, 1, 2, 3, 3,
    2, 2, 1, 2, 1, 1, 1, 1, 2, 1, 2, 1, 1, 2, 2, 1, 1, 1, 1, 1, 1, 2, 1, 2, 1, 2, 1, 2, 1, 2,
    1, 2, 1, 2, 1, 3, 4, 6, 1, 2, 3, 4, 6, 1, 2, 3, 4, 6, 1, 1, 2, 3, 4, 6, 1, 2, 3, 4, 6, 1,
    2, 1
  >>

hebrides_f ==
  <<
    NoSig,
    NoSig,
    NoSig,
    NoSig,
    NoSig,
    NoSig,
    NoSig,
    NoSig,
    NoSig,
    NoSig,
    Fn(<<Ty(1)>>, <<Ty(1)>>),
    Fn(<<Ty(2)>>, <<Ty(2)>>),
    Fn(<<Ty(1), Ty(1)>>, <<Ty(1)>>),
    Fn(<<Ty(2), Ty(2)>>, <<Ty(2)>>),
    Fn(<<Ty(1)>>, <<Gen(5, <<Ty(3), Ty(4)>>)>>),
    Fn(<<Ty(2)>>, <<Ty(2)>>),
    Fn(<<Ty(1)>>, <<Gen(5, <<Ty(3), Ty(4)>>)>>),
    Fn(<<Ty(2)>>, <<Ty(2)>>),
    Fn(<<Ty(1)>>, <<Gen(5, <<Ty(3), Ty(4)>>)>>),
    Fn(<<Ty(2)>>, <<Ty(2)>>),
    Fn(<<Ty(1)>>, <<Ty(3)>>),
    Fn(<<Ty(2)>>, <<Ty(2)>>),
    Fn(<<Ty(1)>>, <<Ty(3)>>),
    Fn(<<Ty(2)>>, <<Ty(2)>>),
    Fn(<<Ty(1)>>, <<Gen(5, <<Ty(3), Ty(4)>>)>>),
    Fn(<<Ty(2)>>, <<Ty(2)>>),
    Fn(<<Ty(2)>>, <<Ty(3)>>),
    Fn(<<>>, <<>>),
    Fn(<<>>, <<>>),
    Fn(<<>>, <<>>),
    Fn(<<>>, <<>>),
    Fn(<<>>, <<>>),
    Fn(<<>>, <<>>),
    Fn(<<>>, <<>>),
    Fn(<<>>, <<>>),
    Fn(<<>>, <<>>),
    Fn(<<>>, <<>>),
    Fn(<<Ty(1)>>, <<Ty(1)>>),
    Fn(<<Ty(4)>>, <<Ty(4)>>),
    Fn(<<Ty(6)>>, <<Ty(6)>>),
    Fn(<<Ty(1)>>, <<Ty(1)>>),
    Fn(<<Ty(2)>>, <<Ty(2)>>),
    Fn(<<>>, <<>>),
    Fn(<<>>, <<>>),
    Fn(<<>>, <<>>),
    Fn(<<>>, <<>>),
    Fn(<<Ty(1), Ty(1)>>, <<Ty(7)>>),
    Fn(<<Ty(1)>>, <<Ty(1)>>),
    Fn(<<Ty(2)>>, <<Ty(2)>>),
    Fn(<<Ty(1)>>, <<Ty(1)>>),
    Fn(<<Ty(2)>>, <<Ty(2)>>),
    Fn(<<Ty(1), Ty(1)>>, <<Ty(1)>>),
    Fn(<<Ty(2), Ty(2)>>, <<Ty(2)>>),
    Fn(<<Ty(1), Ty(1)>>, <<Ty(8)>>),
    Fn(<<Ty(2), Ty(2)>>, <<Ty(8)>>),
    Fn(<<Ty(1)>>, <<Ty(1)>>),
    Fn(<<Ty(2)>>, <<Ty(2)>>),
    Fn(<<Ty(1)>>, <<Ty(1)>>),
    Fn(<<Ty(4), Ty(9)>>, <<Ty(10)>>),
    Fn(<<Ty(4), Ty(9)>>, <<Ty(10)>>),
    Fn(<<Ty(6), Ty(9)>>, <<Ty(10)>>),
    Fn(<<Ty(6), Ty(9)>>, <<Ty(10)>>),
    Fn(<<Ty(1), Ty(9)>>, <<Ty(10)>>),
    Fn(<<Ty(1), Ty(9)>>, <<Ty(10)>>),
    Fn(<<Ty(2), Ty(9)>>, <<Ty(10)>>),
    Fn(<<Ty(2), Ty(9)>>, <<Ty(10)>>),
    Fn(<<>>, <<>>),
    Fn(<<>>, <<>>),
    Fn(<<>>, <<>>),
    Fn(<<Ty(11)>>, <<Ty(1)>>),
    Fn(<<Ty(12)>>, <<Ty(1)>>),
    Fn(<<Ty(13)>>, <<Ty(1)>>),
    Fn(<<Ty(14)>>, <<Ty(1)>>),
    Fn(<<Ty(15)>>, <<Ty(1)>>),
    Fn(<<Ty(16)>>, <<Ty(1)>>),
    Fn(<<Ty(17)>>, <<Ty(1)>>),
    Fn(<<Ty(18)>>, <<Ty(1)>>),
    Fn(<<Ty(19)>>, <<Ty(1)>>),
    Fn(<<Ty(20)>>, <<Ty(1)>>),
    Fn(<<>>, <<>>),
    Fn(<<>>, <<>>),
    Fn(<<Ty(18)>>, <<Ty(3)>>),
    Fn(<<Ty(18)>>, <<Ty(3)>>),
    Fn(<<>>, <<>>),
    Fn(<<>>, <<>>),
    Fn(<<>>, <<>>),
    Fn(<<>>, <<>>),
    Fn(<<>>, <<>>),
    Fn(<<Ty(18)>>, <<Ty(18)>>),
    Fn(<<Ty(18)>>, <<Ty(18)>>),
    Fn(<<Ty(2)>>, <<Ty(8)>>),
    Fn(<<Ty(2)>>, <<Ty(8)>>),
    Fn(<<Ty(1)>>, <<Gen(5, <<Ty(1), Ty(4)>>)>>),
    Fn(<<Ty(2)>>, <<Ty(2)>>),
    Fn(<<Ty(1), Ty(1)>>, <<Gen(5, <<Ty(1), Ty(4)>>)>>),
    Fn(<<Ty(1), Ty(18)>>, <<Gen(5, <<Ty(1), Ty(4)>>)>>),
    Fn(<<Ty(1), Ty(12)>>, <<Gen(5, <<Ty(1), Ty(4)>>)>>),
    Fn(<<Ty(1), Ty(1)>>, <<Ty(1)>>),
    Fn(<<Ty(2), Ty(2)>>, <<Ty(2)>>),
    Fn(<<Ty(1)>>, <<Ty(1)>>),
    Fn(<<Ty(2)>>, <<Ty(2)>>),
    Fn(<<Ty(1)>>, <<Ty(8)>>),
    Fn(<<Ty(18)>>, <<Ty(1)>>),
    Fn(<<Ty(18), Ty(18)>>, <<Ty(2)>>),
    Fn(<<Ty(2)>>, <<Ty(1)>>),
    Fn(<<Ty(1), Ty(1)>>, <<Gen(21, <<Ty(7)>>)>>),
    Fn(<<Ty(1)>>, <<Ty(8)>>),
    Fn(<<Ty(1), Ty(1)>>, <<Ty(1)>>),
    Fn(<<Ty(1), Ty(18)>>, <<Gen(5, <<Ty(1), Ty(4)>>)>>),
    Fn(<<Ty(1), Ty(12)>>, <<Ty(1)>>),
    Fn(<<Ty(1)>>, <<Ty(1)>>),
    Fn(<<Ty(2)>>, <<Ty(2)>>),
    Fn(<<Ty(1)>>, <<Ty(1)>>),
    Fn(<<Ty(2)>>, <<Ty(2)>>),
    Fn(<<Ty(1)>>, <<Gen(5, <<Ty(1), Ty(4)>>)>>),
    Fn(<<Ty(2)>>, <<Ty(2)>>),
    Fn(<<Ty(1)>>, <<Ty(1)>>),
    Fn(<<Ty(2)>>, <<Ty(2)>>),
    Fn(<<Ty(1), Ty(1)>>, <<Ty(1)>>),
    Fn(<<Ty(2), Ty(2)>>, <<Ty(2)>>),
    Fn(<<Ty(1)>>, <<Ty(1)>>),
    Fn(<<Ty(2)>>, <<Ty(2)>>),
    Fn(<<Ty(1)>>, <<Ty(1)>>),
    Fn(<<Ty(2)>>, <<Ty(2)>>),
    Fn(<<Ty(1)>>, <<Ty(2)>>),
    Fn(<<Ty(3)>>, <<Ty(18)>>),
    Fn(<<>>, <<>>),
    Fn(<<>>, <<>>),
    Fn(<<>>, <<>>),
    Fn(<<>>, <<>>),
    Fn(<<Ty(3)>>, <<Ty(18)>>),
    Fn(<<>>, <<Ty(22)>>),
    Fn(<<>>, <<Ty(22)>>),
    Fn(<<>>, <<Ty(22)>>),
    Fn(<<>>, <<Ty(22)>>),
    Fn(<<>>, <<Ty(5)>>),
    Fn(<<>>, <<Ty(5)>>),
    Fn(<<>>, <<Ty(5)>>),
    Fn(<<Ty(2)>>, <<Gen(5, <<Ty(1), Ty(6)>>)>>),
    Fn(<<>>, <<Ty(5)>>),
    Fn(<<>>, <<Ty(5)>>),
    Fn(<<>>, <<Ty(5)>>),
    Fn(<<>>, <<Ty(5)>>),
    Fn(<<>>, <<Ty(5)>>),
    Fn(<<>>, <<Ty(5)>>),
    Fn(<<>>, <<Ty(5)>>),
    Fn(<<>>, <<Ty(23)>>),
    Fn(<<>>, <<Ty(23)>>),
    Fn(<<>>, <<Ty(23)>>),
    Fn(<<>>, <<Ty(23)>>),
    Fn(<<>>, <<Ty(23)>>),
    Fn(<<Ty(1)>>, <<Ty(18)>>)
  >>

hebrides_p ==
  <<
    [kind |-> 3, name |-> "Real"],
    [kind |-> 3, name |-> "Complex"],
    [kind |-> 3, name |-> "Angle"],
    [kind |-> 3, name |-> "DomainError"],
    [kind |-> 4, name |-> "Result"],
    [kind |-> 3, name |-> "ConversionError"],
    [kind |-> 4, name |-> "Ordering"],
    [kind |-> 15, name |-> "bool"],
    [kind |-> 3, name |-> "Formatter"],
    [kind |-> 6, name |-> "Result"],
    [kind |-> 15, name |-> "i32"],
    [kind |-> 15, name |-> "i64"],
    [kind |-> 15, name |-> "u16"],
    [kind |-> 15, name |-> "f32"],
    [kind |-> 15, name |-> "u64"],
    [kind |-> 15, name |-> "u8"],
    [kind |-> 15, name |-> "i8"],
    [kind |-> 15, name |-> "f64"],
    [kind |-> 15, name |-> "u32"],
    [kind |-> 15, name |-> "i16"],
    [kind |-> 4, name |-> "Option"],
    [kind |-> 3, name |-> "String"],
    [kind |-> 3, name |-> "TypeId"]
  >>

\* The crate with the signature of item k replaced.
WithF(k, sig) ==
  [doc |-> hebrides_doc, t |-> hebrides_t, n |-> hebrides_n, q |-> hebrides_q,
   d |-> hebrides_d, i |-> hebrides_i, f |-> [hebrides_f EXCEPT ![k] = sig],
   p |-> hebrides_p]

\* Real::ln : Real -> Real.
hebrides_ln_bare == WithF(93, Fn(<<Ty(1)>>, <<Ty(1)>>))

\* Real::arctan : Real -> Result<Angle, DomainError>.
hebrides_arctan_result == WithF(23, Fn(<<Ty(1)>>, <<Gen(5, <<Ty(3), Ty(4)>>)>>))

\* Real::from : u64 -> Result<Real, ConversionError>.
hebrides_from_u64_result == WithF(74, Fn(<<Ty(15)>>, <<Gen(5, <<Ty(1), Ty(6)>>)>>))

\* Complex::azimuthal : Complex -> Complex.
hebrides_azimuthal_complex == WithF(27, Fn(<<Ty(2)>>, <<Ty(2)>>))

\* Angle::into_degrees : f64 -> Angle.
hebrides_into_degrees_angle == WithF(89, Fn(<<Ty(18)>>, <<Ty(3)>>))

\* "i" written one element short.
hebrides_owner_dropped ==
  [doc |-> hebrides_doc, t |-> hebrides_t, n |-> hebrides_n, q |-> hebrides_q,
   d |-> hebrides_d, i |-> Tail(hebrides_i), f |-> hebrides_f, p |-> hebrides_p]

hebrides ==
  [doc |-> hebrides_doc, t |-> hebrides_t, n |-> hebrides_n, q |-> hebrides_q,
   d |-> hebrides_d, i |-> hebrides_i, f |-> hebrides_f, p |-> hebrides_p]

\* The value JSON.parse returns for the literal of lines 1-3.
searchIndexJSON == [typeof |-> "object", hebrides |-> hebrides]

-----------------------------------------------------------------------------
(***************************************************************************)
(* Host environment.  JavaScript values are named by their source text.    *)
(***************************************************************************)
Undefined == [typeof |-> "undefined"]

\* Values window.initSearch may hold.  "function" returns normally when
\* called, "function_throws" raises an exception when called.
FalsyValues == {"undefined", "null", "false", "0", "NaN", "''"}

NonCallableTruthyValues == {"true", "1", "'x'", "{}"}

FunctionValues == {"function", "function_throws"}

JSValues == FalsyValues \cup NonCallableTruthyValues \cup FunctionValues

\* ToBoolean(v) as used by && and if.
Truthy(v) == v \notin FalsyValues

\* IsCallable(v): whether v(...) is a call or a TypeError.
Callable(v) == v \in FunctionValues

\* What the bindings window and exports may be in a host.
\* typeof null is "object", so null passes a typeof ... !== 'undefined' test.
Bindings == {"undefined", "null", "object"}

TypeofDefined(b) == b # "undefined"

VARIABLES
  pc,                  \* statement about to run
  searchIndex,         \* the global declared on line 1
  window,              \* the binding window
  initSearch,          \* window.initSearch, when window is an object
  exports,             \* the binding exports
  exports_searchIndex, \* exports.searchIndex, when exports is an object
  calls,               \* arguments of the calls of window.initSearch so far
  effects,             \* the observable effects of the script, in order
  thrown               \* the exception that ended the script, if any

vars == <<pc, searchIndex, window, initSearch, exports, exports_searchIndex,
          calls, effects, thrown>>

env == <<window, initSearch, exports>>

Init ==
  /\ pc = "line1"
  /\ searchIndex = Undefined
  /\ window \in Bindings
  /\ initSearch \in (IF window = "object" THEN JSValues ELSE {"undefined"})
  /\ exports \in Bindings
  /\ exports_searchIndex = Undefined
  /\ calls = <<>>
  /\ effects = <<>>
  /\ thrown = "none"

\* line 1-3: var searchIndex = JSON.parse('...');
Line1 ==
  /\ pc = "line1"
  /\ searchIndex' = searchIndexJSON
  /\ effects' = Append(effects, "parse")
  /\ pc' = "line4_test"
  /\ UNCHANGED <<env, exports_searchIndex, calls, thrown>>

\* line 4 with the condition cut to: typeof window !== 'undefined'
Line4Test_WithoutInitSearchTest ==
  /\ pc = "line4_test"
  /\ IF ~TypeofDefined(window)
       THEN pc' = "line5_test" /\ thrown' = thrown
       ELSE IF window = "null"
         THEN pc' = "threw" /\ thrown' = "TypeError"
         ELSE pc' = "line4_call" /\ thrown' = thrown
  /\ UNCHANGED <<searchIndex, env, exports_searchIndex, calls, effects>>

\* line 4, condition: typeof window !== 'undefined' && window.initSearch
Line4Test ==
  /\ pc = "line4_test"
  /\ IF ~TypeofDefined(window)
       THEN pc' = "line5_test" /\ thrown' = thrown
       ELSE IF window = "null"
         THEN pc' = "threw" /\ thrown' = "TypeError"
         ELSE /\ pc' = (IF Truthy(initSearch) THEN "line4_call" ELSE "line5_test")
              /\ thrown' = thrown
  /\ UNCHANGED <<searchIndex, env, exports_searchIndex, calls, effects>>

\* line 4, body: window.initSearch(searchIndex)
Line4Call ==
  /\ pc = "line4_call"
  /\ IF ~Callable(initSearch)
       THEN /\ pc' = "threw" /\ thrown' = "TypeError"
            /\ UNCHANGED <<calls, effects>>
       ELSE /\ calls' = Append(calls, searchIndex)
            /\ effects' = Append(effects, "initSearch")
            /\ IF initSearch = "function_throws"
                 THEN pc' = "threw" /\ thrown' = "Error"
                 ELSE pc' = "line5_test" /\ thrown' = thrown
  /\ UNCHANGED <<searchIndex, env, exports_searchIndex>>

\* line 5, condition: typeof exports !== 'undefined'
Line5Test ==
  /\ pc = "line5_test"
  /\ pc' = (IF TypeofDefined(exports) THEN "line5_assign" ELSE "done")
  /\ UNCHANGED <<searchIndex, env, exports_searchIndex, calls, effects, thrown>>

\* line 5, body: exports.searchIndex = searchIndex
Line5Assign ==
  /\ pc = "line5_assign"
  /\ IF exports = "null"
       THEN /\ pc' = "threw" /\ thrown' = "TypeError"
            /\ UNCHANGED <<exports_searchIndex, effects>>
       ELSE /\ exports_searchIndex' = searchIndex
            /\ effects' = Append(effects, "exports")
            /\ pc' = "done" /\ thrown' = thrown
  /\ UNCHANGED <<searchIndex, env, calls>>

Next == Line1 \/ Line4Test \/ Line4Call \/ Line5Test \/ Line5Assign

Spec == Init /\ [][Next]_vars

-----------------------------------------------------------------------------
(***************************************************************************)
(* Reading the parsed index.                                               *)
(***************************************************************************)
Parsed == searchIndex.typeof = "object"

Items == 1..Len(searchIndex.hebrides.n)

\* Name of the type at a 1-based position of "p".
TypeName(ty) == searchIndex.hebrides.p[ty.id].name

\* Name of the owner of item k ("" for a top-level item, owner 0).
OwnerName(k) ==
  IF searchIndex.hebrides.i[k] = 0 THEN ""
  ELSE searchIndex.hebrides.p[searchIndex.hebrides.i[k]].name

\* Item k is owner::name.
Is(k, owner, name) == searchIndex.hebrides.n[k] = name /\ OwnerName(k) = owner

Inputs(k) == searchIndex.hebrides.f[k].inputs

Output(k) == searchIndex.hebrides.f[k].output

HasSig(k) == searchIndex.hebrides.f[k].present

\* tys is exactly one type without generics, named name.
IsBare(tys, name) ==
  /\ Len(tys) = 1
  /\ tys[1].generics = <<>>
  /\ TypeName(tys[1]) = name

\* tys is the enum Result (position 5 of "p") with generics (ok, err).
IsResult(tys, ok, err) ==
  /\ Len(tys) = 1
  /\ tys[1].id = 5
  /\ TypeName(tys[1]) = "Result"
  /\ Len(tys[1].generics) = 2
  /\ IsBare(<<tys[1].generics[1]>>, ok)
  /\ IsBare(<<tys[1].generics[2]>>, err)

\* tys is Option<inner>.
IsOption(tys, inner) ==
  /\ Len(tys) = 1
  /\ TypeName(tys[1]) = "Option"
  /\ Len(tys[1].generics) = 1
  /\ IsBare(<<tys[1].generics[1]>>, inner)

\* Every type number occurring in a list of types, generics included.
RECURSIVE TypeIdsOf(_)
TypeIdsOf(tys) ==
  IF tys = <<>> THEN {}
  ELSE {Head(tys).id} \cup TypeIdsOf(Head(tys).generics) \cup TypeIdsOf(Tail(tys))

\* The list of types names the type called name, at any depth.
Mentions(tys, name) ==
  \E j \in TypeIdsOf(tys) :
    j \in 1..Len(searchIndex.hebrides.p) /\ searchIndex.hebrides.p[j].name = name

\* Some type of the list is a Result whose error generic is err.
HasResultError(tys, err) ==
  \E j \in 1..Len(tys) :
    /\ TypeName(tys[j]) = "Result"
    /\ Len(tys[j].generics) = 2
    /\ Mentions(<<tys[j].generics[2]>>, err)

\* owner::name is in the index, and every item of that name and owner
\* that carries a signature satisfies P.
Each(owner, name, P(_)) ==
  /\ \E k \in Items : Is(k, owner, name)
  /\ \A k \in Items : Is(k, owner, name) => P(k)

Terminated == pc \in {"done", "threw"}

-----------------------------------------------------------------------------
(***************************************************************************)
(* Error types in the signatures.                                          *)
(***************************************************************************)
FallibleDomain(k) == HasSig(k) /\ HasResultError(Output(k), "DomainError")

RealDomainResult(k) == HasSig(k) /\ IsResult(Output(k), "Real", "DomainError")

\* C1 (as stated): every logarithm of the index, Real::ln, Real::log,
\* Real::logf, Real::logi and Complex::ln, returns a Result whose second
\* generic is DomainError.
C1_EveryLogarithmFallible ==
  Parsed =>
    /\ Each("Real", "ln", FallibleDomain)
    /\ Each("Real", "log", FallibleDomain)
    /\ Each("Real", "logf", FallibleDomain)
    /\ Each("Real", "logi", FallibleDomain)
    /\ Each("Complex", "ln", FallibleDomain)

ComplexToComplex(k) ==
  HasSig(k) /\ IsBare(Inputs(k), "Complex") /\ IsBare(Output(k), "Complex")

\* C1 (amended): the four logarithms of Real (ln, log, logf, logi) return
\* Result<Real, DomainError>; Complex::ln is declared Complex -> Complex,
\* with no Result.
C1_RealLogarithmsFallible ==
  Parsed =>
    /\ Each("Real", "ln", RealDomainResult)
    /\ Each("Real", "log", RealDomainResult)
    /\ Each("Real", "logf", RealDomainResult)
    /\ Each("Real", "logi", RealDomainResult)
    /\ Each("Complex", "ln", ComplexToComplex)

C1_Witness ==
  /\ Parsed
  /\ \E k \in Items : Is(k, "Real", "ln") /\ RealDomainResult(k)
  /\ \E k \in Items : Is(k, "Complex", "ln") /\ ~FallibleDomain(k)

RealToAngleResult(k) ==
  /\ HasSig(k)
  /\ IsBare(Inputs(k), "Real")
  /\ IsResult(Output(k), "Angle", "DomainError")

RealToAngle(k) ==
  HasSig(k) /\ IsBare(Inputs(k), "Real") /\ IsBare(Output(k), "Angle")

\* C2: Real::arcsin, arccos, arccosh and arctanh take one Real and return
\* Result<Angle, DomainError>; Real::arctan and Real::arcsinh take one Real
\* and return a bare Angle.
C2_InverseTrigFallibility ==
  Parsed =>
    /\ Each("Real", "arcsin", RealToAngleResult)
    /\ Each("Real", "arccos", RealToAngleResult)
    /\ Each("Real", "arccosh", RealToAngleResult)
    /\ Each("Real", "arctanh", RealToAngleResult)
    /\ Each("Real", "arctan", RealToAngle)
    /\ Each("Real", "arcsinh", RealToAngle)

C2_Witness ==
  /\ Parsed
  /\ \E k \in Items : Is(k, "Real", "arcsin") /\ RealToAngleResult(k)
  /\ \E k \in Items : Is(k, "Real", "arctan") /\ RealToAngle(k)

NamesConversionError(k) ==
  /\ HasSig(k)
  /\ \/ HasResultError(Output(k), "ConversionError")
     \/ HasResultError(Inputs(k), "ConversionError")

PrimitiveNumbers == {"i8", "i16", "i32", "i64", "u8", "u16", "u32", "u64", "f32", "f64"}

\* C3: exactly one item names ConversionError as the error of a Result:
\* Real::try_from : Complex -> Result<Real, ConversionError>.  Real::to_complex
\* is Real -> Complex, and for each of the ten primitive number types there
\* is exactly one Real::from taking it, returning a bare Real.
C3_ConversionErrorOnlyFromComplex ==
  Parsed =>
    /\ Cardinality({k \in Items : NamesConversionError(k)}) = 1
    /\ \A k \in Items :
         NamesConversionError(k) =>
           /\ Is(k, "Real", "try_from")
           /\ IsBare(Inputs(k), "Complex")
           /\ IsResult(Output(k), "Real", "ConversionError")
    /\ Each("Real", "to_complex",
            LAMBDA k : HasSig(k) /\ IsBare(Inputs(k), "Real") /\ IsBare(Output(k), "Complex"))
    /\ \A prim \in PrimitiveNumbers :
         /\ Cardinality({k \in Items : Is(k, "Real", "from") /\ IsBare(Inputs(k), prim)}) = 1
         /\ \A k \in Items :
              Is(k, "Real", "from") /\ IsBare(Inputs(k), prim) => IsBare(Output(k), "Real")

C3_Witness ==
  /\ Parsed
  /\ \E k \in Items : Is(k, "Real", "try_from") /\ NamesConversionError(k)
  /\ \E k \in Items : Is(k, "Real", "from") /\ IsBare(Inputs(k), "u64")

-----------------------------------------------------------------------------
(***************************************************************************)
(* Comparison, conversions and constants.                                  *)
(***************************************************************************)
TwoReals(k) ==
  /\ Len(Inputs(k)) = 2
  /\ IsBare(<<Inputs(k)[1]>>, "Real")
  /\ IsBare(<<Inputs(k)[2]>>, "Real")

\* C4 (as stated): every item owned by Real that takes two Reals and whose
\* output is an ordering returns Option<Ordering>; Real::eq is
\* (Real, Real) -> bool.
C4_RealOrderingIsPartial ==
  Parsed =>
    /\ \E k \in Items :
         OwnerName(k) = "Real" /\ HasSig(k) /\ Mentions(Output(k), "Ordering")
    /\ \A k \in Items :
         (OwnerName(k) = "Real" /\ HasSig(k) /\ TwoReals(k)
            /\ Mentions(Output(k), "Ordering"))
           => IsOption(Output(k), "Ordering")
    /\ Each("Real", "eq", LAMBDA k : HasSig(k) /\ TwoReals(k) /\ IsBare(Output(k), "bool"))

Takes(k, name) == HasSig(k) /\ Mentions(Inputs(k), name)

Returns(k, name) == HasSig(k) /\ Mentions(Output(k), name)

\* C5 (as stated): some item takes a Complex and returns an Angle, and some
\* item takes an Angle and returns a Complex.
C5_AngleComplexBothWays ==
  Parsed =>
    /\ \E k \in Items : Takes(k, "Complex") /\ Returns(k, "Angle")
    /\ \E k \in Items : Takes(k, "Angle") /\ Returns(k, "Complex")

\* C5 (amended): the index has an item that takes a Complex and returns an
\* Angle (Complex::azimuthal : Complex -> Angle) and no item that takes an
\* Angle and returns a Complex.
C5_ComplexToAngleOnly ==
  Parsed =>
    /\ Each("Complex", "azimuthal",
            LAMBDA k : HasSig(k) /\ IsBare(Inputs(k), "Complex") /\ IsBare(Output(k), "Angle"))
    /\ \A k \in Items : ~(Takes(k, "Angle") /\ Returns(k, "Complex"))

C5_Witness ==
  /\ Parsed
  /\ \E k \in Items : Is(k, "Complex", "azimuthal") /\ Returns(k, "Angle")
  /\ \E k \in Items : Takes(k, "Angle")

DocIs(owner, name, text) ==
  Each(owner, name, LAMBDA k : searchIndex.hebrides.d[k] = text)

\* C6 (as stated): the docs of the constants agree with their names:
\* Complex::ONE encodes 1.0 from Real::ONE, Complex::ZERO encodes 0.0 from
\* Real::ZERO, Real::ONE describes Real::new(1.0) and Real::ZERO describes
\* Real::new(0.0).
C6_ConstantDocsConsistent ==
  Parsed =>
    /\ DocIs("Complex", "ONE", "shortcut for encoding 1.0 as Complex::new(Real::ONE, \\u2026")
    /\ DocIs("Complex", "ZERO", "shortcut for encoding 0.0 as Complex::new(Real::ZERO, \\u2026")
    /\ DocIs("Real", "ONE", "shortcut for describing Real::new(1.0)")
    /\ DocIs("Real", "ZERO", "shortcut for describing Real::new(0.0)")

F64ToAngle(k) == HasSig(k) /\ IsBare(Inputs(k), "f64") /\ IsBare(Output(k), "Angle")

AngleToF64(k) == HasSig(k) /\ IsBare(Inputs(k), "Angle") /\ IsBare(Output(k), "f64")

F64ToF64(k) == HasSig(k) /\ IsBare(Inputs(k), "f64") /\ IsBare(Output(k), "f64")

\* C7: for each unit u of degrees and radians, Angle owns from_u : f64 ->
\* Angle, to_u : Angle -> f64 and into_u : f64 -> f64; no other item of the
\* index takes an f64 and returns an Angle.
C7_AngleUnitConversions ==
  Parsed =>
    /\ Each("Angle", "from_degrees", F64ToAngle)
    /\ Each("Angle", "from_radians", F64ToAngle)
    /\ Each("Angle", "to_degrees", AngleToF64)
    /\ Each("Angle", "to_radians", AngleToF64)
    /\ Each("Angle", "into_degrees", F64ToF64)
    /\ Each("Angle", "into_radians", F64ToF64)
    /\ \A k \in Items :
         (Takes(k, "f64") /\ Returns(k, "Angle"))
           => (Is(k, "Angle", "from_degrees") \/ Is(k, "Angle", "from_radians"))

C7_Witness ==
  /\ Parsed
  /\ \E k \in Items : Is(k, "Angle", "from_degrees") /\ F64ToAngle(k)
  /\ \E k \in Items : Is(k, "Angle", "into_radians") /\ F64ToF64(k)
  /\ \E k \in Items : Is(k, "Angle", "to_radians") /\ AngleToF64(k)

OwnStructs == {"Real", "Complex", "Angle", "DomainError", "ConversionError"}

\* C9: t, n, q, d, i and f have one length; every owner is 0 or the position
\* in "p" of one of the crate's structs; every type number in "f" is a
\* position of "p"; an item has owner 0 and no signature exactly when its
\* kind is 3; every item of kind 11 has an owner and a signature.
C9_IndexWellFormed ==
  Parsed =>
    LET x == searchIndex.hebrides
        N == Len(x.n)
        P == 1..Len(x.p)
    IN /\ Len(x.t) = N /\ Len(x.q) = N /\ Len(x.d) = N
       /\ Len(x.i) = N /\ Len(x.f) = N
       /\ \A k \in 1..N :
            \/ x.i[k] = 0
            \/ /\ x.i[k] \in P
               /\ x.p[x.i[k]].kind = 3
               /\ x.p[x.i[k]].name \in OwnStructs
       /\ \A k \in 1..N : TypeIdsOf(x.f[k].inputs) \cup TypeIdsOf(x.f[k].output) \subseteq P
       /\ \A k \in 1..N : (x.i[k] = 0 /\ ~x.f[k].present) <=> (x.t[k] = 3)
       /\ \A k \in 1..N : x.t[k] = 11 => (x.i[k] # 0 /\ x.f[k].present)

C9_Witness ==
  /\ Parsed
  /\ \E k \in Items : searchIndex.hebrides.t[k] = 3
  /\ \E k \in Items : searchIndex.hebrides.t[k] = 11 /\ Output(k) # <<>>
  /\ \E k \in Items : searchIndex.hebrides.t[k] = 18

SameFallibility(names) ==
  \/ \A name \in names : Each("Real", name, RealDomainResult)
  \/ \A name \in names :
       Each("Real", name, LAMBDA k : HasSig(k) /\ IsBare(Output(k), "Real"))

\* C10 (as stated): Real::pow, powf and powi either all return
\* Result<Real, DomainError> or all return a bare Real, and likewise
\* Real::log, logf and logi.
C10_SameFallibilityAcrossArgumentTypes ==
  Parsed =>
    /\ SameFallibility({"pow", "powf", "powi"})
    /\ SameFallibility({"log", "logf", "logi"})

-----------------------------------------------------------------------------
(***************************************************************************)
(* Loading the script.                                                     *)
(***************************************************************************)
\* The condition of line 4 asks for the call.
WindowHook == TypeofDefined(window) /\ Truthy(initSearch)

\* The condition of line 5 asks for the assignment.
ExportsHook == TypeofDefined(exports)

\* The effects happen in the order of the file, each at most once.
InFileOrder ==
  effects \in {<<>>, <<"parse">>, <<"parse", "initSearch">>, <<"parse", "exports">>,
               <<"parse", "initSearch", "exports">>}

ParsedBeforeHooks ==
  /\ pc # "line1" => searchIndex = searchIndexJSON
  /\ calls # <<>> \/ exports_searchIndex # Undefined => Parsed
  /\ InFileOrder

\* C8 (as stated): in every environment the load ends without error; the
\* index is parsed before either hook; window.initSearch is called exactly
\* once with the index iff window is defined and window.initSearch is truthy;
\* exports.searchIndex is the index iff exports is defined; the call precedes
\* the assignment; with neither hook nothing but searchIndex changes.
C8_LoadAlwaysCompletes ==
  /\ ParsedBeforeHooks
  /\ pc # "threw" /\ thrown = "none"
  /\ pc = "done" =>
       /\ calls = (IF WindowHook THEN <<searchIndex>> ELSE <<>>)
       /\ exports_searchIndex = (IF ExportsHook THEN searchIndex ELSE Undefined)

\* Line 4 raises: window is null, or window.initSearch is truthy and is not
\* a function that returns normally.
Line4Throws ==
  \/ window = "null"
  \/ window = "object" /\ Truthy(initSearch) /\ initSearch # "function"

\* Line 5 raises: exports is null.
Line5Throws == exports = "null"

\* C8 (amended): the index is parsed before either hook, and the effects
\* keep the order of the file.  The load ends with an exception exactly
\* when line 4 raises (window is null, or window.initSearch is truthy and
\* not callable, or it is a function that throws) or, line 4 passed, line 5
\* raises (exports is null); an exception at line 4 skips line 5.
\* window.initSearch is called, once and with the index, iff window is an
\* object and window.initSearch is a function; exports.searchIndex is the
\* index iff exports is an object and line 4 did not raise; with neither
\* hook nothing but searchIndex changes.
C8_LoadBehaviour ==
  /\ ParsedBeforeHooks
  /\ Len(calls) <= 1
  /\ thrown # "none" <=> pc = "threw"
  /\ Terminated =>
       /\ pc = "threw" <=> (Line4Throws \/ Line5Throws)
       /\ thrown = (IF Line4Throws
                      THEN (IF initSearch = "function_throws" THEN "Error" ELSE "TypeError")
                      ELSE IF Line5Throws THEN "TypeError" ELSE "none")
       /\ calls = (IF window = "object" /\ Callable(initSearch)
                     THEN <<searchIndexJSON>> ELSE <<>>)
       /\ exports_searchIndex =
            (IF exports = "object" /\ ~Line4Throws THEN searchIndexJSON ELSE Undefined)
       /\ (~WindowHook /\ ~ExportsHook) =>
            (effects = <<"parse">> /\ calls = <<>> /\ exports_searchIndex = Undefined)

C8_Witness ==
  /\ pc = "done"
  /\ window = "object" /\ initSearch = "function" /\ exports = "object"
  /\ calls = <<searchIndexJSON>>
  /\ exports_searchIndex = searchIndexJSON
  /\ effects = <<"parse", "initSearch", "exports">>

=============================================================================
